---- MODULE Spec2Model ----
(***************************************************************************)
(* A model of the vamps gameplay core (src/main.rs): the four per-frame     *)
(* systems player_attack, projectile_movement, player_movement and          *)
(* monster_movement, the world built by setup, the repeating attack timer   *)
(* and the physics step that ends a frame.                                  *)
(*                                                                          *)
(* Arithmetic.  The program computes with f32 vectors.  The model computes  *)
(* exactly: a vector is a record [n, d, x, y, q] that stands for            *)
(*        (n / d) * (x, y) / sqrt(q)                                        *)
(* with integers n, d, x, y, q.  An integer vector (x, y) is                *)
(* [n |-> 1, d |-> 1, x |-> x, y |-> y, q |-> 1].  Dividing by the          *)
(* magnitude sets q to x*x + y*y.  Dividing the zero vector by its          *)
(* magnitude (0 * 1/0) gives q = 0: that record stands for NaN.  Rounding   *)
(* of f32 is not modelled.  The z coordinate is 0 everywhere in the         *)
(* program and is left out.                                                 *)
(***************************************************************************)
EXTENDS Integers, Sequences, FiniteSets

\* ---------------------------------------------------------------- bounds
\* Number of frames the App runs (the first frame has a zero delta).
MaxFrames == 4

\* ------------------------------------------------------ program constants
\* Duration::from_millis(500) of the AttackTimer.
Period == 500
\* Player speed, direction * 150.0.
PlayerSpeed == 150
\* Distance from the Player at which a Projectile is spawned, direction * 28.0.
SpawnDistance == 28
\* Distance a Projectile moves per projectile_movement run, direction * 4.0.
ProjectileStep == 4
\* lives: 1 of a new Projectile.
InitialLives == 1
\* Monster speed factor 0.35, as the fraction 35 / 100.
MonsterFactorNum == 35
MonsterFactorDen == 100

\* --------------------------------------------------------------- vectors
IVec(x, y) == [n |-> 1, d |-> 1, x |-> x, y |-> y, q |-> 1]

Zeros == IVec(0, 0)

\* a - b for integer vectors (pairs <<x, y>>), as an exact vector
Sub(a, b) == IVec(a[1] - b[1], a[2] - b[2])

\* v * k / m for a rational scalar k / m
ScaleQ(v, k, m) == [v EXCEPT !.n = @ * k, !.d = @ * m]

Scale(v, k) == ScaleQ(v, k, 1)

\* v / |v| for an unscaled integer vector: glam's normalize() and
\* nalgebra's `direction /= direction.magnitude()`.  No guard: the zero
\* vector gives q = 0, the NaN vector.
Normalize(v) == [v EXCEPT !.q = v.x * v.x + v.y * v.y]

\* the vector has no NaN component and is (0, 0)
IsZeroVec(v) == v.q # 0 /\ (v.n = 0 \/ (v.x = 0 /\ v.y = 0))

\* (x, y) / sqrt(q) has length 1
IsUnit(v) == v.q # 0 /\ v.x * v.x + v.y * v.y = v.q

\* v is a non-negative multiple k / m of a unit vector: |v| = k / m
HasMagnitude(v, k, m) == IsUnit(v) /\ v.n >= 0 /\ v.d > 0 /\ v.n * m = k * v.d

\* v points from the integer point a toward the integer point b # a
PointsFromTo(v, a, b) ==
    /\ v.q # 0 /\ v.n > 0 /\ v.d > 0
    /\ v.x * (b[2] - a[2]) = v.y * (b[1] - a[1])
    /\ v.x * (b[1] - a[1]) + v.y * (b[2] - a[2]) > 0

\* A Transform translation that is an integer point plus an exact vector.
Translation(base, off) == [base |-> base, off |-> off]

\* t + v, where v is collinear with the offset t already carries (or t
\* carries none): the only additions the program makes.
AddVec(t, v) ==
    IF t.off.n = 0
    THEN [t EXCEPT !.off = v]
    ELSE [t EXCEPT !.off.n = t.off.n * v.d + v.n * t.off.d,
                   !.off.d = t.off.d * v.d]

\* ------------------------------------------------------------ the timer
\* Timer::new(Duration::from_millis(500), true)
NewTimer == [elapsed |-> 0, finished |-> FALSE, times_finished |-> 0]

\* Variant: a tick that reaches the period exactly does not count.
TimerTickStrict(t, delta) ==
    LET e == t.elapsed + delta
        f == e > Period
        k == IF f THEN e \div Period ELSE 0
    IN  [elapsed |-> e - Period * k, finished |-> f, times_finished |-> k]

\* Timer::tick(delta) of the engine's repeating timer: the elapsed time is
\* kept modulo the period, finished() is true in a tick that reaches the
\* period, and times_finished counts the periods the tick completed.
TimerTick(t, delta) ==
    LET e == t.elapsed + delta
        f == e >= Period
        k == IF f THEN e \div Period ELSE 0
    IN  [elapsed |-> e - Period * k, finished |-> f, times_finished |-> k]

\* ------------------------------------------------------------- the world
\* Variant: setup spawns no Player.
SetupNoPlayer == {}

\* Entity ids: the Player spawned by setup, and one Monster per position of
\* the loop at line 94.
SetupPlayers == {0}

SetupMonsterPositions == << <<100, 215>>, <<-100, 215>> >>

SetupMonsters == 1..Len(SetupMonsterPositions)

\* The four Obstacles, one per pair of the nested loops over [-250, 250].
SetupObstacles == {<<x, y>> : x \in {-250, 250}, y \in {-250, 250}}

\* ColliderBundle positions given by setup.
SetupCollider(ms) ==
    [e \in SetupPlayers \cup ms |->
        IF e \in SetupPlayers THEN <<0, 0>> ELSE SetupMonsterPositions[e]]

\* The eight KeyCodes player_movement asks about.
KeyCodes == {"W", "Up", "S", "Down", "A", "Left", "D", "Right"}

\* monsters_transform_query.iter().choose(..) on an empty query: None.
NoMonster == -1

\* The names of the steps of a frame.
Systems == {"player_attack", "projectile_movement", "player_movement",
            "monster_movement"}

VARIABLES
    players,      \* entities with the Player component
    monsters,     \* entities with the Monster component
    obstacles,    \* entities with the Obstacle component (by position)
    collider,     \* ColliderPositionComponent of each physics body
    transform,    \* Transform translation of each physics body
    linvel,       \* RigidBodyVelocityComponent.linvel of each physics body
    projectiles,  \* the Projectile entities: [translation, direction, lives]
    commands,     \* spawn commands queued in this frame's Update stage
    timer,        \* the AttackTimer resource
    delta,        \* Time::delta() of the current frame, in ms
    keys,         \* the KeyCodes pressed in the current frame
    ran,          \* the steps of the current frame that have run
    frame,        \* number of frames begun
    chosen,       \* player_attack's monster_transform of this frame
    panicked,     \* a Query::single() found no single Player
    total,        \* history: sum of the deltas player_attack has ticked
    attempts,     \* history: ticks in which player_attack saw finished()
    lost,         \* history: periods completed beyond the first, per tick
    hist          \* history, per Projectile: [spawn, runs]

vars == <<players, monsters, obstacles, collider, transform, linvel,
          projectiles, commands, timer, delta, keys, ran, frame, chosen,
          panicked, total, attempts, lost, hist>>

world == <<players, monsters, obstacles>>
ghost == <<total, attempts, lost>>

\* ----------------------------------------------------------------- setup
\* The world after the startup system: the entities of setup with the
\* Monsters ms.  Every SpriteBundle is built with ..Default::default(), so
\* each body's Transform starts at the origin until the first position sync.
SetupWith(ms) ==
    /\ players = SetupPlayers
    /\ monsters = ms
    /\ obstacles = SetupObstacles
    /\ collider = SetupCollider(ms)
    /\ transform = [e \in SetupPlayers \cup ms |-> <<0, 0>>]
    /\ linvel = [e \in SetupPlayers \cup ms |-> Zeros]
    /\ projectiles = <<>>
    /\ commands = <<>>
    /\ timer = NewTimer
    /\ delta = 0
    /\ keys = {}
    /\ ran = {}
    /\ frame = 0
    /\ chosen = NoMonster
    /\ panicked = FALSE
    /\ total = 0
    /\ attempts = 0
    /\ lost = 0
    /\ hist = <<>>

Init == SetupWith(SetupMonsters)

\* The systems as functions of the world: any set of Monsters present.
InitAny == \E ms \in SUBSET SetupMonsters : SetupWith(ms)

\* ---------------------------------------------------------------- frames
\* main adds the four systems to the default stage with plain add_system:
\* no label, no before or after.  The engine runs each once per frame and
\* fixes no order among them, so any order is possible.  The systems touch
\* disjoint data, so running two of them at once equals some order.
\* A system may run when the frame has begun, the system has not run in it,
\* and the stage has not ended.
MayRun(name) ==
    /\ ~panicked
    /\ frame > 0
    /\ name \notin ran
    /\ "step_world" \notin ran

\* App::run begins a frame: Time gets the frame's delta (zero in the first
\* frame, when there is no previous update) and Input the pressed keys.
BeginFrame(KeySets, Deltas) ==
    /\ ~panicked
    /\ frame < MaxFrames
    /\ frame = 0 \/ "step_world" \in ran
    /\ frame' = frame + 1
    /\ ran' = {}
    /\ delta' \in (IF frame = 0 THEN {0} ELSE Deltas)
    /\ keys' \in KeySets
    /\ chosen' = NoMonster
    /\ UNCHANGED <<world, collider, transform, linvel, projectiles, commands,
                   timer, panicked, ghost, hist>>

\* ---------------------------------------------------------- player_attack
\* Variant: the direction is taken from the Monster to the Player.
NewProjectileReversed(p, m) ==
    LET direction == Normalize(Sub(transform[p], transform[m]))
    IN  [translation |-> AddVec(Translation(transform[p], Scale(Zeros, 0)),
                                Scale(direction, SpawnDistance)),
         direction |-> direction,
         lives |-> InitialLives]

\* The Projectile spawned for the Monster m, the Player being p.
NewProjectile(p, m) ==
    LET direction == Normalize(Sub(transform[m], transform[p]))
    IN  [translation |-> AddVec(Translation(transform[p], Scale(Zeros, 0)),
                                Scale(direction, SpawnDistance)),
         direction |-> direction,
         lives |-> InitialLives]

\* The outcomes of monsters_transform_query.iter().choose(..): any Monster
\* present, or None when there is none.
Targets == IF monsters = {} THEN {NoMonster} ELSE monsters

\* Variant: one Projectile is queued per Monster present.
SpawnedPerMonster(p, m) ==
    IF m = NoMonster THEN <<>>
    ELSE [i \in 1..Cardinality(monsters) |-> NewProjectile(p, m)]

\* The spawn commands player_attack queues for the outcome m of the choice:
\* one Projectile `if let Some(..)`, nothing otherwise.
Spawned(p, m) == IF m = NoMonster THEN <<>> ELSE <<NewProjectile(p, m)>>

player_attack ==
    /\ MayRun("player_attack")
    /\ ran' = ran \cup {"player_attack"}
    /\ timer' = TimerTick(timer, delta)
    /\ total' = total + delta
    /\ IF timer'.finished
       THEN /\ attempts' = attempts + 1
            /\ lost' = lost + (timer'.times_finished - 1)
            /\ IF Cardinality(players) # 1
               THEN /\ panicked' = TRUE
                    /\ UNCHANGED <<commands, chosen>>
               ELSE /\ panicked' = FALSE
                    /\ \E m \in Targets :
                          /\ chosen' = m
                          /\ commands' = commands \o
                                 Spawned(CHOOSE p \in players : TRUE, m)
       ELSE UNCHANGED <<attempts, lost, commands, chosen, panicked>>
    /\ UNCHANGED <<world, collider, transform, linvel, projectiles, delta,
                   keys, frame, hist>>

\* ---------------------------------------------------- projectile_movement
\* Variant: a move costs the Projectile a life.
MoveProjectileSpendLife(p) ==
    [p EXCEPT !.translation = AddVec(@, Scale(p.direction, ProjectileStep)),
              !.lives = @ - 1]

\* Variant: the step is scaled by the frame's delta.
MoveProjectileByDelta(p) ==
    [p EXCEPT !.translation =
        AddVec(@, ScaleQ(p.direction, ProjectileStep * delta, Period))]

\* The loop body of projectile_movement.
MoveProjectile(p) ==
    [p EXCEPT !.translation = AddVec(@, Scale(p.direction, ProjectileStep))]

projectile_movement ==
    /\ MayRun("projectile_movement")
    /\ ran' = ran \cup {"projectile_movement"}
    /\ projectiles' = [i \in 1..Len(projectiles) |-> MoveProjectile(projectiles[i])]
    /\ hist' = [i \in 1..Len(hist) |-> [hist[i] EXCEPT !.runs = @ + 1]]
    /\ UNCHANGED <<world, collider, transform, linvel, commands, timer, delta,
                   keys, frame, chosen, panicked, ghost>>

\* -------------------------------------------------------- player_movement
Pressed(k) == k \in keys

AsInt(b) == IF b THEN 1 ELSE 0

\* Variant: the direction is not normalized.
InputDirectionRaw ==
    LET up == Pressed("W") \/ Pressed("Up")
        down == Pressed("S") \/ Pressed("Down")
        left == Pressed("A") \/ Pressed("Left")
        right == Pressed("D") \/ Pressed("Right")
    IN  IVec(-AsInt(left) + AsInt(right), -AsInt(down) + AsInt(up))

\* The direction player_movement computes from the pressed keys.
InputDirection ==
    LET up == Pressed("W") \/ Pressed("Up")
        down == Pressed("S") \/ Pressed("Down")
        left == Pressed("A") \/ Pressed("Left")
        right == Pressed("D") \/ Pressed("Right")
        x_axis == -AsInt(left) + AsInt(right)
        y_axis == -AsInt(down) + AsInt(up)
        direction == IVec(x_axis, y_axis)
    IN  IF direction # Zeros THEN Normalize(direction) ELSE direction

player_movement ==
    /\ MayRun("player_movement")
    /\ ran' = ran \cup {"player_movement"}
    /\ linvel' = [e \in DOMAIN linvel |->
                    IF e \in players THEN Scale(InputDirection, PlayerSpeed)
                    ELSE linvel[e]]
    /\ UNCHANGED <<world, collider, transform, projectiles, commands, timer,
                   delta, keys, frame, chosen, panicked, ghost, hist>>

\* ------------------------------------------------------- monster_movement
\* Variant: the factor 0.35 is missing.
PursuitVelocityFullSpeed(p, m) ==
    LET d0 == Sub(collider[p], collider[m])
        direction == IF d0 # Zeros THEN Normalize(d0) ELSE d0
    IN  Scale(direction, PlayerSpeed)

\* The velocity monster_movement gives the Monster m, the Player being p.
PursuitVelocity(p, m) ==
    LET d0 == Sub(collider[p], collider[m])
        direction == IF d0 # Zeros THEN Normalize(d0) ELSE d0
    IN  ScaleQ(Scale(direction, PlayerSpeed), MonsterFactorNum, MonsterFactorDen)

monster_movement ==
    /\ MayRun("monster_movement")
    /\ ran' = ran \cup {"monster_movement"}
    /\ IF Cardinality(players) # 1
       THEN /\ panicked' = TRUE
            /\ UNCHANGED linvel
       ELSE /\ panicked' = FALSE
            /\ linvel' = [e \in DOMAIN linvel |->
                    IF e \in monsters
                    THEN PursuitVelocity(CHOOSE p \in players : TRUE, e)
                    ELSE linvel[e]]
    /\ UNCHANGED <<world, collider, transform, projectiles, commands, timer,
                   delta, keys, frame, chosen, ghost, hist>>

\* ------------------------------------------------------------- step_world
\* The end of a frame, after the four systems: the Update stage's queued
\* commands are applied (the Projectiles spawned in this frame appear), the
\* physics plugin steps the world, which puts every body somewhere, and
\* ColliderPositionSync::Discrete copies each body's position to its
\* Transform.  The physics engine is outside the program: its result is any
\* one of the placements Places of the bodies.
step_world(Places) ==
    /\ ~panicked
    /\ frame > 0
    /\ Systems \subseteq ran
    /\ "step_world" \notin ran
    /\ ran' = ran \cup {"step_world"}
    /\ projectiles' = projectiles \o commands
    /\ hist' = hist \o [i \in 1..Len(commands) |->
                          [spawn |-> commands[i].translation, runs |-> 0]]
    /\ commands' = <<>>
    /\ collider' \in Places
    /\ transform' = collider'
    /\ UNCHANGED <<world, linvel, timer, delta, keys, frame, chosen, panicked,
                   ghost>>

\* ------------------------------------------------------- specifications
\* Points the physics step may put a body on: two of the setup positions.
PhysicsSpots == {<<0, 0>>, <<100, 215>>}

\* Frame deltas in ms: half a period of the timer, and two periods.
FrameDeltas == {250, 1000}

\* Key states sampled by the full game loop.
KeySample == {{"W", "D"}, {"A", "Right", "Down"}}

Next ==
    \/ BeginFrame(KeySample, FrameDeltas)
    \/ player_attack
    \/ projectile_movement
    \/ player_movement
    \/ monster_movement
    \/ step_world([DOMAIN collider -> PhysicsSpots])

Spec == Init /\ [][Next]_vars

SpecAny == InitAny /\ [][Next]_vars

\* The game loop under every state of the eight keys, with a frame delta of
\* one period and a physics step that leaves the bodies where they are.
NextKeys ==
    \/ BeginFrame(SUBSET KeyCodes, {Period})
    \/ player_attack
    \/ projectile_movement
    \/ player_movement
    \/ monster_movement
    \/ step_world({collider})

SpecKeys == Init /\ [][NextKeys]_vars

\* ------------------------------------------------------------- the claims
ThePlayer == CHOOSE p \in players : TRUE

\* The Update stage of a frame is under way and the system `name` has run.
HasRun(name) == name \in ran /\ "step_world" \notin ran

\* C1, as stated: at every moment the number of ticks in which player_attack
\* saw the attack timer elapsed equals floor(T / 500 ms), T being the sum of
\* the deltas ticked so far, also when one delta spans two or more periods.
C1_AttemptsEqualFloor == attempts = total \div Period

\* C1, amended: a tick counts once however many periods it completes.  The
\* number of ticks that saw the timer elapsed, plus the periods beyond the
\* first that those ticks completed, equals floor(T / 500 ms); the timer
\* keeps the remainder T mod 500 ms; and a tick completes two or more
\* periods only if its delta is longer than one period.
C1_AttemptsCountTicks ==
    /\ attempts + lost = total \div Period
    /\ attempts <= total \div Period
    /\ timer.elapsed = total % Period
    /\ timer.finished <=> timer.times_finished >= 1
    /\ ("player_attack" \in ran /\ timer.times_finished >= 2) => delta > Period
    /\ lost = 0 => attempts = total \div Period

\* C1 witness: after ticks that reached the period by accumulation and a
\* tick whose delta spanned two periods.
C1_Witness == attempts >= 2 /\ lost >= 1 /\ total % Period # 0

\* C2: in a frame player_attack queues at most one Projectile: exactly one
\* when the timer elapsed in its tick and a Monster exists, none otherwise;
\* with no Monster nothing is ever spawned, nothing panics and the countdown
\* still restarts (the timer keeps T mod 500 ms).
C2_OnePerElapse ==
    /\ Len(commands) <= 1
    /\ "player_attack" \notin ran => commands = <<>>
    /\ HasRun("player_attack") =>
          Len(commands) = IF timer.finished /\ monsters # {} THEN 1 ELSE 0
    /\ Len(projectiles) + Len(commands) = IF monsters = {} THEN 0 ELSE attempts
    /\ monsters = {} => ~panicked /\ chosen = NoMonster
    /\ timer.elapsed = total % Period /\ timer.elapsed < Period

\* C2 witness: the timer elapsed, for the second time, with no Monster.
C2_Witness ==
    /\ monsters = {}
    /\ HasRun("player_attack")
    /\ timer.finished
    /\ attempts >= 2
    /\ commands = <<>> /\ projectiles = <<>>

\* C3, as stated: when the chosen target (player_attack) or a Monster
\* (monster_movement) is at the Player's position, the direction or velocity
\* computed is the zero vector, not NaN.
C3_ZeroNotNaN ==
    /\ \A i \in 1..Len(commands) :
          (chosen \in monsters /\ transform[chosen] = transform[ThePlayer])
              => IsZeroVec(commands[i].direction)
    /\ HasRun("monster_movement") =>
          \A m \in monsters :
              collider[m] = collider[ThePlayer] => IsZeroVec(linvel[m])

\* C4: the Projectile queued for a chosen Monster that is not at the
\* Player's position has a unit direction pointing from the Player to that
\* Monster, lies 28 along it from the Player, and has lives = 1; with the
\* Player at (0,0) and the single Monster at (100,215) it is at
\* 28 * (100,215) / sqrt(56225).
C4_ProjectileAimed ==
    \A i \in 1..Len(commands) :
        LET c == commands[i]
            p == transform[ThePlayer]
        IN  /\ chosen \in monsters
            /\ transform[chosen] # p =>
                  /\ IsUnit(c.direction)
                  /\ c.direction.n = 1 /\ c.direction.d = 1
                  /\ PointsFromTo(c.direction, p, transform[chosen])
                  /\ c.translation.base = p
                  /\ c.translation.off = [c.direction EXCEPT !.n = SpawnDistance]
                  /\ c.lives = 1
            /\ (monsters = {1} /\ p = <<0, 0>> /\ transform[1] = <<100, 215>>) =>
                  /\ c.direction = [n |-> 1, d |-> 1, x |-> 100, y |-> 215, q |-> 56225]
                  /\ c.translation =
                        [base |-> <<0, 0>>,
                         off |-> [n |-> 28, d |-> 1, x |-> 100, y |-> 215, q |-> 56225]]

\* C4 witness: the Player at (0,0), a single Monster at (100,215), and the
\* Projectile of an elapsed timer queued.
C4_Witness ==
    /\ monsters = {1}
    /\ transform[ThePlayer] = <<0, 0>> /\ transform[1] = <<100, 215>>
    /\ Len(commands) = 1

\* C5: once player_movement has run in a frame, the Player's velocity is
\* 150 * normalize((right - left, up - down)): the zero vector when both
\* axes are 0, otherwise of magnitude exactly 150 along the axes; a pair of
\* opposite directions held together gives 0 on its axis.
C5_PlayerVelocity ==
    "player_movement" \in ran =>
        LET held(a, b) == a \in keys \/ b \in keys
            x == AsInt(held("D", "Right")) - AsInt(held("A", "Left"))
            y == AsInt(held("W", "Up")) - AsInt(held("S", "Down"))
            v == linvel[ThePlayer]
        IN  /\ x \in {-1, 0, 1} /\ y \in {-1, 0, 1}
            /\ IsZeroVec(v) \/ HasMagnitude(v, PlayerSpeed, 1)
            /\ (x = 0 /\ y = 0) => IsZeroVec(v)
            /\ (x # 0 \/ y # 0) =>
                  HasMagnitude(v, PlayerSpeed, 1) /\ v.x = x /\ v.y = y
            /\ (held("D", "Right") /\ held("A", "Left")) => v.x = 0
            /\ (held("W", "Up") /\ held("S", "Down")) => v.y = 0

\* C5 witness: player_movement has run with left and right held together
\* (two keys for right) and up held: the velocity is 150 along y.
C5_Witness ==
    /\ "player_movement" \in ran
    /\ keys = {"A", "Right", "W", "D"}
    /\ HasMagnitude(linvel[ThePlayer], PlayerSpeed, 1)
    /\ linvel[ThePlayer].x = 0 /\ linvel[ThePlayer].y = 1

\* C6: once monster_movement has run in a frame, every Monster's velocity is
\* of magnitude exactly 52.5 = 105 / 2 and points from the Monster's synced
\* position to the Player's, or is the zero vector when the two coincide.
C6_MonsterVelocity ==
    HasRun("monster_movement") =>
        \A m \in monsters :
            IF collider[m] = collider[ThePlayer]
            THEN IsZeroVec(linvel[m])
            ELSE /\ HasMagnitude(linvel[m], 105, 2)
                 /\ PointsFromTo(linvel[m], collider[m], collider[ThePlayer])

\* C6 witness: one Monster on the Player's position and one away from it.
C6_Witness ==
    /\ HasRun("monster_movement")
    /\ collider[1] = collider[ThePlayer]
    /\ collider[2] # collider[ThePlayer]
    /\ frame >= 2

\* The order of the steps of a frame that C7 states.
ClaimedOrder == <<"player_movement", "monster_movement", "step_world",
                  "player_attack", "projectile_movement">>

\* C7, as stated: in every frame the steps run in the order player movement,
\* monster pursuit, physics step and sync, attack, projectile update: the
\* set of steps that have run is always an initial part of that order.
C7_FixedOrder ==
    \E k \in 0..Len(ClaimedOrder) : ran = {ClaimedOrder[i] : i \in 1..k}

\* C8: in every reachable state there are exactly one Player, two Monsters
\* and four Obstacles, and no Query::single() has failed.
C8_WorldFixed ==
    /\ Cardinality(players) = 1
    /\ Cardinality(monsters) = 2
    /\ Cardinality(obstacles) = 4
    /\ ~panicked

\* C8 witness: a later frame in which both systems that call single() have
\* run and a Projectile has been spawned.
C8_Witness ==
    /\ frame >= 3
    /\ {"player_attack", "monster_movement"} \subseteq ran
    /\ Len(projectiles) >= 1

\* C9: no step removes a Projectile or changes the direction or the lives
\* (1) of a Projectile that exists.
C9_ProjectileKept ==
    [][/\ Len(projectiles') >= Len(projectiles)
       /\ \A i \in 1..Len(projectiles) :
             /\ projectiles'[i].direction = projectiles[i].direction
             /\ projectiles'[i].lives = projectiles[i].lives
             /\ projectiles[i].lives = 1]_vars

\* C9 witness: two Projectiles exist and the first has been moved.
C9_Witness ==
    /\ Len(projectiles) >= 2
    /\ hist[1].runs >= 1
    /\ projectiles[1].translation # hist[1].spawn

\* C10: a Projectile that has been through k runs of projectile_movement is
\* at spawnPos + 4 * k * direction, whatever the deltas of the frames; every
\* Projectile that exists has been through every run since it appeared.
C10_ProjectilePath ==
    /\ Len(hist) = Len(projectiles)
    /\ \A i \in 1..Len(projectiles) :
          LET t == projectiles[i].translation
              s == hist[i].spawn
              k == hist[i].runs
              dir == projectiles[i].direction
          IN  /\ t.base = s.base
              /\ t.off.x = dir.x /\ t.off.y = dir.y /\ t.off.q = dir.q
              /\ t.off.n * s.off.d * dir.d =
                    (s.off.n * dir.d + 4 * k * dir.n * s.off.d) * t.off.d
              /\ \A j \in 1..Len(projectiles) : j < i => hist[j].runs >= k

\* C10 witness: a Projectile with a proper direction has been moved twice.
C10_Witness ==
    \E i \in 1..Len(projectiles) :
        /\ hist[i].runs >= 2
        /\ IsUnit(projectiles[i].direction)

====
